---- MODULE Spec2Model ----
(***************************************************************************)
(* imapautofiler.actions: the action factory, the Move / Trash / Delete /  *)
(* SortMailingList actions and the mailing-list destination derivation.    *)
(*                                                                         *)
(* Python str values are tuples of one-character strings ("lists" is       *)
(* <<"l","i","s","t","s">>), so that formatting, searching and slicing are *)
(* computed.  None is the one value of that shape that is no string.       *)
(***************************************************************************)
EXTENDS Integers, Sequences, FiniteSets, TLC

\* ------------------------------------------------------------------ bounds

\* Longest list-id header value explored.
MaxLen == 3

\* ------------------------------------------------------------ Python values

None == <<"None">>

\* dict.get(key, default)
Get(d, k, default) == IF k \in DOMAIN d THEN d[k] ELSE default

\* '{}'.format(v): str(None) is the text None, a str is itself
Str(v) == IF v = None THEN <<"N", "o", "n", "e">> ELSE v

\* '{}.{}'.format(a, b)
Format2(a, b) == Str(a) \o <<".">> \o Str(b)

\* The action names factory knows.
NameMove == <<"m", "o", "v", "e">>
NameSortMailingList ==
    <<"s", "o", "r", "t", "-", "m", "a", "i", "l", "i", "n", "g", "-", "l", "i", "s", "t">>
NameDelete == <<"d", "e", "l", "e", "t", "e">>
NameTrash == <<"t", "r", "a", "s", "h">>

\* bool(v) of a str-or-None value
Truthy(v) == v # None /\ v # <<>>

\* ------------------------------------------------------------------- re
\* The part of Python's re that the patterns of Patterns use: literals,
\* backslash-escaped punctuation, '.', character sets [..] and [^..],
\* capturing groups, and the greedy quantifiers ? * +.

Quantifiers == {"?", "*", "+"}

RECURSIVE ParseSeq(_, _, _)
RECURSIVE ParseSet(_, _, _)

ParseError(why) == [ok |-> FALSE, why |-> why]

\* The members of a character set, from position i up to the closing ']'.
ParseSet(p, i, cs) ==
    IF i > Len(p) THEN ParseError("unterminated character set")
    ELSE IF p[i] = "]" /\ cs # {} THEN [ok |-> TRUE, cs |-> cs, pos |-> i + 1]
    ELSE ParseSet(p, i + 1, cs \cup {p[i]})

\* One atom at position i; g is the number of groups opened so far.
ParseAtom(p, i, g) ==
    LET c == p[i] IN
    IF c \in Quantifiers THEN ParseError("nothing to repeat")
    ELSE IF c = "\\" THEN
        IF i + 1 > Len(p) THEN ParseError("bad escape (end of pattern)")
        ELSE [ok |-> TRUE, node |-> [op |-> "lit", c |-> p[i + 1]],
              pos |-> i + 2, g |-> g]
    ELSE IF c = "." THEN
        [ok |-> TRUE, node |-> [op |-> "any"], pos |-> i + 1, g |-> g]
    ELSE IF c = "[" THEN
        LET neg == i + 1 <= Len(p) /\ p[i + 1] = "^"
            r   == ParseSet(p, IF neg THEN i + 2 ELSE i + 1, {})
        IN IF ~r.ok THEN r
           ELSE [ok |-> TRUE, node |-> [op |-> "set", neg |-> neg, cs |-> r.cs],
                 pos |-> r.pos, g |-> g]
    ELSE IF c = "(" THEN
        LET r == ParseSeq(p, i + 1, g + 1) IN
        IF ~r.ok THEN r
        ELSE IF r.pos > Len(p)
        THEN ParseError("missing ), unterminated subpattern")
        ELSE [ok |-> TRUE,
              node |-> [op |-> "group", idx |-> g + 1, body |-> r.nodes],
              pos |-> r.pos + 1, g |-> r.g]
    ELSE [ok |-> TRUE, node |-> [op |-> "lit", c |-> c], pos |-> i + 1, g |-> g]

\* The atom a with the quantifier that follows it, if any.
ParseQuant(p, a) ==
    IF a.pos > Len(p) \/ p[a.pos] \notin Quantifiers THEN a
    ELSE IF a.pos + 1 <= Len(p) /\ p[a.pos + 1] \in {"*", "+"}
    THEN ParseError("multiple repeat")
    ELSE LET q == p[a.pos] IN
         [ok |-> TRUE,
          node |-> [op |-> "rep", body |-> a.node,
                    min |-> IF q = "+" THEN 1 ELSE 0,
                    many |-> q # "?"],
          pos |-> a.pos + 1, g |-> a.g]

\* A sequence of quantified atoms, up to the end of the pattern or a ')'.
ParseSeq(p, i, g) ==
    IF i > Len(p) \/ p[i] = ")"
    THEN [ok |-> TRUE, nodes |-> <<>>, pos |-> i, g |-> g]
    ELSE LET a == ParseAtom(p, i, g) IN
         IF ~a.ok THEN a
         ELSE LET q == ParseQuant(p, a) IN
              IF ~q.ok THEN q
              ELSE LET r == ParseSeq(p, q.pos, q.g) IN
                   IF ~r.ok THEN r
                   ELSE [ok |-> TRUE, nodes |-> <<q.node>> \o r.nodes,
                         pos |-> r.pos, g |-> r.g]

\* re.compile(pattern): the compiled pattern object (.pattern, .groups), or
\* the re.error it raises.
ReCompile(p) ==
    LET r == ParseSeq(p, 1, 0) IN
    IF ~r.ok THEN r
    ELSE IF r.pos <= Len(p) THEN ParseError("unbalanced parenthesis")
    ELSE [ok |-> TRUE, pattern |-> p, groups |-> r.g, nodes |-> r.nodes]

RECURSIVE MatchSeq(_, _, _, _)
RECURSIVE MatchNode(_, _, _, _)
RECURSIVE MatchRep(_, _, _, _, _)
RECURSIVE ThenSeq(_, _, _)
RECURSIVE ThenRep(_, _, _, _, _)
RECURSIVE CloseGroup(_, _, _, _)

\* Every way nodes can match s from position i, in the order the backtracking
\* matcher tries them: the first is the match it reports.
MatchSeq(nodes, s, i, caps) ==
    IF nodes = <<>> THEN << [pos |-> i, caps |-> caps] >>
    ELSE ThenSeq(MatchNode(Head(nodes), s, i, caps), Tail(nodes), s)

ThenSeq(rs, rest, s) ==
    IF rs = <<>> THEN <<>>
    ELSE MatchSeq(rest, s, Head(rs).pos, Head(rs).caps) \o ThenSeq(Tail(rs), rest, s)

CloseGroup(rs, idx, s, i) ==
    IF rs = <<>> THEN <<>>
    ELSE << [pos |-> Head(rs).pos,
             caps |-> [Head(rs).caps EXCEPT ![idx] = SubSeq(s, i, Head(rs).pos - 1)]] >>
         \o CloseGroup(Tail(rs), idx, s, i)

MatchNode(n, s, i, caps) ==
    IF n.op = "lit" THEN
        IF i <= Len(s) /\ s[i] = n.c THEN << [pos |-> i + 1, caps |-> caps] >> ELSE <<>>
    ELSE IF n.op = "any" THEN
        IF i <= Len(s) /\ s[i] # "\n" THEN << [pos |-> i + 1, caps |-> caps] >> ELSE <<>>
    ELSE IF n.op = "set" THEN
        IF i <= Len(s) /\ ((s[i] \in n.cs) # n.neg)
        THEN << [pos |-> i + 1, caps |-> caps] >> ELSE <<>>
    ELSE IF n.op = "group" THEN
        CloseGroup(MatchSeq(n.body, s, i, caps), n.idx, s, i)
    ELSE MatchRep(n, s, i, caps, 0)

\* Greedy repetition: one more iteration is tried before stopping here.
MatchRep(n, s, i, caps, count) ==
    LET more == IF n.many \/ count < 1
                THEN ThenRep(MatchNode(n.body, s, i, caps), n, s, i, count)
                ELSE <<>>
        stop == IF count >= n.min THEN << [pos |-> i, caps |-> caps] >> ELSE <<>>
    IN more \o stop

ThenRep(rs, n, s, i, count) ==
    IF rs = <<>> THEN <<>>
    ELSE (IF Head(rs).pos > i \/ count < n.min
          THEN MatchRep(n, s, Head(rs).pos, Head(rs).caps, count + 1)
          ELSE <<>>)
         \o ThenRep(Tail(rs), n, s, i, count)

RECURSIVE SearchFrom(_, _, _)
SearchFrom(re, s, i) ==
    IF i > Len(s) + 1 THEN [matched |-> FALSE]
    ELSE LET rs == MatchSeq(re.nodes, s, i, [k \in 1..re.groups |-> None]) IN
         IF rs # <<>>
         THEN [matched |-> TRUE, start |-> i, end |-> Head(rs).pos,
               groups |-> Head(rs).caps]
         ELSE SearchFrom(re, s, i + 1)

\* pattern.search(string): the leftmost match, or no match.  .groups is
\* match.groups(): one entry per capturing group, None where the group took
\* no part in the match.
ReSearch(re, s) == SearchFrom(re, s, 1)

\* ------------------------------------------------------------ exceptions

NoError == [type |-> "none"]

ValueError(msg, detail) == [type |-> "ValueError", msg |-> msg, detail |-> detail]
ReError(why) == [type |-> "re.error", msg |-> why]
IndexError == [type |-> "IndexError", msg |-> "tuple index out of range"]
\* What the connection raises when move_message / delete_message fails.
ConnectionError == [type |-> "ConnectionError", msg |-> "connection failed"]

UnrecognizedAction == "unrecognized rule action"
NoBaseGiven        == "No dest-mailbox-base given for action"
NoGroup            == "Regex has no group to select the mailbox name portion."
MultipleGroups     == "Regex has multiple groups and the action data does not specify the dest-mailbox-regex-group to use."
CouldNotDetermine  == "Could not determine destination mailbox from list-id with regex"
NoTrashMailbox     == "no \"trash-mailbox\" set in config"

\* ------------------------------------------------------------ trace events

LogRecord(level, logger, msg, fields) ==
    [ev |-> "log", level |-> level, logger |-> logger, msg |-> msg, fields |-> fields]
MoveMessageCall(src, dest, message_id, message) ==
    [ev |-> "move_message", src |-> src, dest |-> dest,
     message_id |-> message_id, message |-> message]
DeleteMessageCall(mailbox, message_id, message) ==
    [ev |-> "delete_message", mailbox |-> mailbox,
     message_id |-> message_id, message |-> message]

\* A call on the connection: recorded, and it returns or raises as the
\* connection decides (connOk).
ConnCall(call, connOk) ==
    [trace |-> <<call>>, exc |-> IF connOk THEN NoError ELSE ConnectionError]

\* --------------------------------------------------------------- messages

\* message[name] of an email message: None when the header is missing
Header(message, name) == Get(message, name, None)

\* -------------------------------------------------------------- the actions

NoAction == [cls |-> "none"]

\* Action.__init__
Action_init(cls, action_data, cfg) ==
    [self  |-> [cls |-> cls, data |-> action_data, cfg |-> cfg],
     trace |-> << LogRecord("debug", cls, "new: %r", <<action_data>>) >>,
     exc   |-> NoError]

\* Move.__init__
Move_init(cls, action_data, cfg) ==
    LET base == Action_init(cls, action_data, cfg) IN
    [base EXCEPT !.self = [c \in {"dest_mailbox"} |->
                              Get(base.self.data, "dest-mailbox", None)]
                          @@ base.self]

\* Move.invoke with the two mailbox arguments of move_message exchanged
Move_invoke_SwappedMailboxes(self, connOk, src_mailbox, message_id, message) ==
    LET info == LogRecord("info", self.cls, "%s (%s) to %s",
                          <<message_id, Header(message, "subject"), self.dest_mailbox>>)
        call == ConnCall(MoveMessageCall(self.dest_mailbox, src_mailbox,
                                         message_id, message), connOk)
    IN [self |-> self, trace |-> <<info>> \o call.trace, exc |-> call.exc]

\* Move.invoke
Move_invoke(self, connOk, src_mailbox, message_id, message) ==
    LET info == LogRecord("info", self.cls, "%s (%s) to %s",
                          <<message_id, Header(message, "subject"), self.dest_mailbox>>)
        call == ConnCall(MoveMessageCall(src_mailbox, self.dest_mailbox,
                                         message_id, message), connOk)
    IN [self |-> self, trace |-> <<info>> \o call.trace, exc |-> call.exc]

\* The default pattern with the backslash before its dot left out
SortMailingList_default_regex_UnescapedDot ==
    <<"<", "?", "(", "[", "^", ".", "]", "+", ")", ".", ".", "*", ">", "?">>

SortMailingList_default_regex ==
    <<"<", "?", "(", "[", "^", ".", "]", "+", ")", "\\", ".", ".", "*", ">", "?">>

\* SortMailingList.__init__ without the check for several groups
SortMailingList_init_NoAmbiguityCheck(cls, action_data, cfg) ==
    LET base == Action_init(cls, action_data, cfg)
        dest_mailbox_base == Get(base.self.data, "dest-mailbox-base", None)
        regex == ReCompile(Get(base.self.data, "dest-mailbox-regex",
                               SortMailingList_default_regex))
        Raise(e) == [self |-> NoAction, trace |-> base.trace, exc |-> e]
    IN  IF ~Truthy(dest_mailbox_base) THEN Raise(ValueError(NoBaseGiven, action_data))
        ELSE IF ~regex.ok THEN Raise(ReError(regex.why))
        ELSE IF regex.groups = 0 THEN Raise(ValueError(NoGroup, regex.pattern))
        ELSE [base EXCEPT !.self =
                 [dest_mailbox_base |-> dest_mailbox_base,
                  dest_mailbox_regex |-> regex,
                  dest_mailbox_regex_group |->
                      Get(action_data, "dest-mailbox-regex-group", 0)]
                 @@ base.self]

\* SortMailingList.__init__
SortMailingList_init(cls, action_data, cfg) ==
    LET base == Action_init(cls, action_data, cfg)
        dest_mailbox_base == Get(base.self.data, "dest-mailbox-base", None)
        regex == ReCompile(Get(base.self.data, "dest-mailbox-regex",
                               SortMailingList_default_regex))
        Raise(e) == [self |-> NoAction, trace |-> base.trace, exc |-> e]
    IN  IF ~Truthy(dest_mailbox_base) THEN Raise(ValueError(NoBaseGiven, action_data))
        ELSE IF ~regex.ok THEN Raise(ReError(regex.why))
        ELSE IF regex.groups = 0 THEN Raise(ValueError(NoGroup, regex.pattern))
        ELSE IF regex.groups > 1 /\ "dest-mailbox-regex-group" \notin DOMAIN action_data
        THEN Raise(ValueError(MultipleGroups, regex.pattern))
        ELSE [base EXCEPT !.self =
                 [dest_mailbox_base |-> dest_mailbox_base,
                  dest_mailbox_regex |-> regex,
                  dest_mailbox_regex_group |->
                      Get(action_data, "dest-mailbox-regex-group", 0)]
                 @@ base.self]

\* tuple[index]: negative indexes count from the end
TupleIndex(t, index) ==
    IF 0 <= index /\ index < Len(t) THEN [ok |-> TRUE, value |-> t[index + 1]]
    ELSE IF index < 0 /\ -index <= Len(t)
    THEN [ok |-> TRUE, value |-> t[Len(t) + index + 1]]
    ELSE [ok |-> FALSE]

\* SortMailingList._get_dest_mailbox falling back to the base mailbox when
\* the pattern does not match
SortMailingList_get_dest_mailbox_FallsBack(self, message_id, message) ==
    LET list_id == Get(message, "list-id", <<>>)
        match   == ReSearch(self.dest_mailbox_regex, list_id)
        debug   == << LogRecord("debug", self.cls, "%s list-id %r matched regex %r with %r",
                                <<message_id, list_id,
                                  self.dest_mailbox_regex.pattern, match.groups>>),
                      LogRecord("debug", self.cls, "%s using group %s",
                                <<message_id, self.dest_mailbox_regex_group>>) >>
        group   == TupleIndex(match.groups, self.dest_mailbox_regex_group)
    IN  IF ~match.matched
        THEN [trace |-> <<>>, exc |-> NoError, value |-> self.dest_mailbox_base]
        ELSE IF ~group.ok THEN [trace |-> debug, exc |-> IndexError]
        ELSE [trace |-> debug, exc |-> NoError,
              value |-> Format2(self.dest_mailbox_base, group.value)]

\* SortMailingList._get_dest_mailbox
SortMailingList_get_dest_mailbox(self, message_id, message) ==
    LET list_id == Get(message, "list-id", <<>>)
        match   == ReSearch(self.dest_mailbox_regex, list_id)
        debug   == << LogRecord("debug", self.cls, "%s list-id %r matched regex %r with %r",
                                <<message_id, list_id,
                                  self.dest_mailbox_regex.pattern, match.groups>>),
                      LogRecord("debug", self.cls, "%s using group %s",
                                <<message_id, self.dest_mailbox_regex_group>>) >>
        group   == TupleIndex(match.groups, self.dest_mailbox_regex_group)
    IN  IF ~match.matched
        THEN [trace |-> <<>>,
              exc |-> ValueError(CouldNotDetermine,
                                 <<list_id, self.dest_mailbox_regex.pattern>>)]
        ELSE IF ~group.ok THEN [trace |-> debug, exc |-> IndexError]
        ELSE [trace |-> debug, exc |-> NoError,
              value |-> Format2(self.dest_mailbox_base, group.value)]

\* SortMailingList.invoke keeping the destination it resolved as its base
SortMailingList_invoke_KeepsDest(self, connOk, src_mailbox, message_id, message) ==
    LET dest_mailbox == SortMailingList_get_dest_mailbox(self, message_id, message) IN
    IF dest_mailbox.exc # NoError
    THEN [self |-> self, trace |-> dest_mailbox.trace, exc |-> dest_mailbox.exc]
    ELSE LET info == LogRecord("info", self.cls, "%s (%s) to %s",
                               <<message_id, Header(message, "subject"),
                                 dest_mailbox.value>>)
             call == ConnCall(MoveMessageCall(src_mailbox, dest_mailbox.value,
                                              message_id, message), connOk)
         IN [self |-> [self EXCEPT !.dest_mailbox_base = dest_mailbox.value],
             trace |-> dest_mailbox.trace \o <<info>> \o call.trace,
             exc |-> call.exc]

\* SortMailingList.invoke
SortMailingList_invoke(self, connOk, src_mailbox, message_id, message) ==
    LET dest_mailbox == SortMailingList_get_dest_mailbox(self, message_id, message) IN
    IF dest_mailbox.exc # NoError
    THEN [self |-> self, trace |-> dest_mailbox.trace, exc |-> dest_mailbox.exc]
    ELSE LET info == LogRecord("info", self.cls, "%s (%s) to %s",
                               <<message_id, Header(message, "subject"),
                                 dest_mailbox.value>>)
             call == ConnCall(MoveMessageCall(src_mailbox, dest_mailbox.value,
                                              message_id, message), connOk)
         IN [self |-> self,
             trace |-> dest_mailbox.trace \o <<info>> \o call.trace,
             exc |-> call.exc]

\* Trash.__init__ asking the global configuration first
Trash_init_GlobalFirst(cls, action_data, cfg) ==
    LET base == Move_init(cls, action_data, cfg)
        dest_mailbox == IF Get(cfg, "trash-mailbox", None) # None
                        THEN cfg["trash-mailbox"]
                        ELSE base.self.dest_mailbox
    IN  IF dest_mailbox = None
        THEN [self |-> NoAction, trace |-> base.trace,
              exc |-> ValueError(NoTrashMailbox, <<>>)]
        ELSE [base EXCEPT !.self.dest_mailbox = dest_mailbox]

\* Trash.__init__
Trash_init(cls, action_data, cfg) ==
    LET base == Move_init(cls, action_data, cfg)
        dest_mailbox == IF base.self.dest_mailbox = None
                        THEN Get(cfg, "trash-mailbox", None)
                        ELSE base.self.dest_mailbox
    IN  IF dest_mailbox = None
        THEN [self |-> NoAction, trace |-> base.trace,
              exc |-> ValueError(NoTrashMailbox, <<>>)]
        ELSE [base EXCEPT !.self.dest_mailbox = dest_mailbox]

\* Delete.invoke logging once the call has returned
Delete_invoke_LogAfterCall(self, connOk, mailbox_name, message_id, message) ==
    LET info == LogRecord("info", self.cls, "%s (%s)",
                          <<message_id, Header(message, "subject")>>)
        call == ConnCall(DeleteMessageCall(mailbox_name, message_id, message), connOk)
    IN [self |-> self,
        trace |-> call.trace \o (IF connOk THEN <<info>> ELSE <<>>),
        exc |-> call.exc]

\* Delete.invoke
Delete_invoke(self, connOk, mailbox_name, message_id, message) ==
    LET info == LogRecord("info", self.cls, "%s (%s)",
                          <<message_id, Header(message, "subject")>>)
        call == ConnCall(DeleteMessageCall(mailbox_name, message_id, message), connOk)
    IN [self |-> self, trace |-> <<info>> \o call.trace, exc |-> call.exc]

\* factory building a Move for the name 'trash'
factory_TrashAsMove(action_data, cfg) ==
    LET name == Get(action_data, "name", None) IN
    IF name \in {NameMove, NameTrash} THEN Move_init("Move", action_data, cfg)
    ELSE IF name = NameSortMailingList
    THEN SortMailingList_init("SortMailingList", action_data, cfg)
    ELSE IF name = NameDelete
    THEN Action_init("Delete", action_data, cfg)
    ELSE [self |-> NoAction, trace |-> <<>>,
          exc |-> ValueError(UnrecognizedAction, action_data)]

\* factory
factory(action_data, cfg) ==
    LET name == Get(action_data, "name", None) IN
    IF name = NameMove THEN Move_init("Move", action_data, cfg)
    ELSE IF name = NameSortMailingList
    THEN SortMailingList_init("SortMailingList", action_data, cfg)
    ELSE IF name = NameDelete
    THEN Action_init("Delete", action_data, cfg)
    ELSE IF name = NameTrash THEN Trash_init("Trash", action_data, cfg)
    ELSE [self |-> NoAction, trace |-> <<>>,
          exc |-> ValueError(UnrecognizedAction, action_data)]

\* action.invoke(...): the method of the instance's class; Trash inherits
\* Move.invoke.
Invoke(self, connOk, mailbox, message_id, message) ==
    IF self.cls \in {"Move", "Trash"}
    THEN Move_invoke(self, connOk, mailbox, message_id, message)
    ELSE IF self.cls = "SortMailingList"
    THEN SortMailingList_invoke(self, connOk, mailbox, message_id, message)
    ELSE Delete_invoke(self, connOk, mailbox, message_id, message)

\* ------------------------------------------------------------------ inputs

Dict(k, v) == [x \in {k} |-> v]
EmptyDict == [x \in {} |-> None]

Alphabet == {"<", ".", "a", ":"}
RECURSIVE StringsUpTo(_)
StringsUpTo(n) ==
    IF n = 0 THEN {<<>>}
    ELSE LET shorter == StringsUpTo(n - 1) IN
         shorter \cup {Append(s, c) : s \in shorter, c \in Alphabet}
ListIds == StringsUpTo(MaxLen)

Subject == <<"h", "i">>
Messages ==
    {EmptyDict, Dict("subject", Subject)}
    \cup {Dict("list-id", l) @@ Dict("subject", Subject) : l \in ListIds}
Mailboxes == {<<"I">>, <<"J">>}
MessageIds == {<<"1">>, <<"2">>}

Names == {NameMove,
          NameSortMailingList,
          NameDelete,
          NameTrash,
          <<"c", "o", "p", "y">>}
Patterns == {SortMailingList_default_regex,
             <<":", "(", ".", "*", ")", ":">>,
             <<":", ".", "*", ":">>,
             <<":", "(", ".", "*", ")", ":", "(", ".", "*", ")", ":">>,
             <<"(", ".", "*", ")">>,
             <<"(", "<", ")", "?", "(", "a", "+", ")">>,
             <<":", "(", ".", "*">>}
GroupIndexes == {0, 1, 2}
Optional(k, values) == {EmptyDict} \cup {Dict(k, v) : v \in values}

MoveData == Optional("dest-mailbox", {<<"O">>, <<>>, None})
SortData == {b @@ r @@ g : b \in Optional("dest-mailbox-base", {<<"L">>, <<>>}),
                           r \in Optional("dest-mailbox-regex", Patterns),
                           g \in Optional("dest-mailbox-regex-group", GroupIndexes)}
\* The keys each action reads, under each name; a rule may also lack its name.
DataFor(name) ==
    IF name \in {NameMove, NameTrash} THEN MoveData
    ELSE IF name = NameSortMailingList
    THEN SortData
    ELSE {EmptyDict}
ActionConfigs ==
    MoveData \cup UNION {{Dict("name", n) @@ d : d \in DataFor(n)} : n \in Names}
GlobalConfigs == Optional("trash-mailbox", {<<"T">>})

\* ------------------------------------------------------------ state machine

VARIABLES
    action,   \* the action instance factory returned, NoAction before/without
    args,     \* the call whose outcome the caller holds: its arguments
    trace,    \* log records and connection calls of that call, in order
    raised    \* the exception that call raised, NoError when it returned

vars == <<action, args, trace, raised>>

Idle == [op |-> "idle"]

Init ==
    /\ action = NoAction
    /\ args = [op |-> "none"]
    /\ trace = <<>>
    /\ raised = NoError

\* The rule loader builds the rule's action.
Factory ==
    /\ args.op = "none"
    /\ \E action_data \in ActionConfigs, cfg \in GlobalConfigs :
          LET r == factory(action_data, cfg) IN
          /\ args' = [op |-> "factory", action_data |-> action_data, cfg |-> cfg]
          /\ action' = r.self
          /\ trace' = r.trace
          /\ raised' = r.exc

\* The driver applies the rule's action to the next matching message.
InvokeAction ==
    /\ action # NoAction
    /\ args.op \in {"factory", "idle"}
    /\ \E mailbox \in Mailboxes, message_id \in MessageIds,
          message \in Messages, connOk \in BOOLEAN :
          LET r == Invoke(action, connOk, mailbox, message_id, message) IN
          /\ args' = [op |-> "invoke", mailbox |-> mailbox,
                      message_id |-> message_id, message |-> message]
          /\ action' = r.self
          /\ trace' = r.trace
          /\ raised' = r.exc

\* The driver is done with that message, whatever invoke's outcome was.
NextMessage ==
    /\ args.op = "invoke"
    /\ args' = Idle
    /\ trace' = <<>>
    /\ raised' = NoError
    /\ UNCHANGED action

Next == Factory \/ InvokeAction \/ NextMessage

Spec == Init /\ [][Next]_vars
\* ------------------------------------------------------------ properties

\* The connection calls among the events of a trace, in order.
IsConnCall(e) == e.ev \in {"move_message", "delete_message"}
Calls(tr) == SelectSeq(tr, IsConnCall)
IsInfo(e) == e.ev = "log" /\ e.level = "info"

AfterFactory == args.op = "factory"
AfterInvoke == args.op = "invoke"
NameOf(action_data) == Get(action_data, "name", None)

\* C1: factory constructs exactly the variant its name selects, with the two
\* configs passed through ('move' -> Move, 'sort-mailing-list' ->
\* SortMailingList, 'delete' -> Delete, 'trash' -> Trash); every other name,
\* an absent one included, fails with the unrecognized-action error and no
\* constructor runs.
C1_FactorySelectsVariant ==
    AfterFactory =>
        LET name == NameOf(args.action_data)
            cls  == CASE name = NameMove -> "Move"
                      [] name = NameSortMailingList -> "SortMailingList"
                      [] name = NameDelete -> "Delete"
                      [] name = NameTrash -> "Trash"
                      [] OTHER -> "none"
        IN  IF cls = "none"
            THEN /\ action = NoAction
                 /\ trace = <<>>
                 /\ raised = ValueError(UnrecognizedAction, args.action_data)
            ELSE /\ trace = << LogRecord("debug", cls, "new: %r", <<args.action_data>>) >>
                 /\ IF raised = NoError
                    THEN /\ action.cls = cls
                         /\ action.data = args.action_data
                         /\ action.cfg = args.cfg
                    ELSE /\ action = NoAction
                         /\ raised.msg # UnrecognizedAction

C1_Witness ==
    /\ AfterFactory
    /\ NameOf(args.action_data) = NameTrash
    /\ action # NoAction
    /\ action.cls = "Trash"
    /\ "trash-mailbox" \in DOMAIN args.cfg

\* A key is present in a configuration when it is there with a value that
\* is not None (in the configuration file: a key with something after it).
Present(d, k) == k \in DOMAIN d /\ d[k] # None

\* The destination Trash resolves, by precedence, from the two configs.
TrashPrecedence(action_data, cfg) ==
    IF Present(action_data, "dest-mailbox") THEN action_data["dest-mailbox"]
    ELSE IF Present(cfg, "trash-mailbox") THEN cfg["trash-mailbox"]
    ELSE None

\* C2: every invoke of a Move, Trash or Delete makes exactly one call on the
\* connection, with the caller's arguments unchanged: Move and Trash call
\* move_message(mailbox, resolved destination, message id, message) and never
\* delete_message; Delete calls delete_message(mailbox, message id, message)
\* and never move_message.
C2_ExactlyOneCall ==
    (AfterInvoke /\ action.cls \in {"Move", "Trash", "Delete"}) =>
        Calls(trace) =
            << CASE action.cls = "Move" ->
                      MoveMessageCall(args.mailbox,
                                      Get(action.data, "dest-mailbox", None),
                                      args.message_id, args.message)
                 [] action.cls = "Trash" ->
                      MoveMessageCall(args.mailbox,
                                      TrashPrecedence(action.data, action.cfg),
                                      args.message_id, args.message)
                 [] OTHER ->
                      DeleteMessageCall(args.mailbox, args.message_id, args.message) >>

C2_Witness ==
    /\ AfterInvoke
    /\ action.cls = "Move"
    /\ Calls(trace) = << MoveMessageCall(<<"J">>, <<"O">>, <<"2">>, args.message) >>
    /\ "list-id" \in DOMAIN args.message

\* C3: Trash resolves its destination by precedence: its own dest-mailbox if
\* present, otherwise the global trash-mailbox, otherwise construction fails
\* with the missing-trash-mailbox error; so a constructed Trash has a
\* destination that is not None, and no Trash invocation calls move_message
\* with None as destination.
C3_TrashPrecedence ==
    /\ (AfterFactory /\ NameOf(args.action_data) = NameTrash) =>
          LET dest == TrashPrecedence(args.action_data, args.cfg) IN
          IF dest = None
          THEN action = NoAction /\ raised = ValueError(NoTrashMailbox, <<>>)
          ELSE raised = NoError /\ action.cls = "Trash" /\ action.dest_mailbox = dest
    /\ action.cls = "Trash" =>
          /\ action.dest_mailbox # None
          /\ \A i \in 1..Len(trace) :
                trace[i].ev = "move_message" => trace[i].dest # None

C3_Witness ==
    /\ AfterInvoke
    /\ action.cls = "Trash"
    /\ ~Present(action.data, "dest-mailbox")
    /\ Calls(trace) # <<>>
    /\ Calls(trace)[1].dest = <<"T">>

C3_WitnessOverride ==
    /\ AfterFactory
    /\ action.cls = "Trash"
    /\ Present(args.cfg, "trash-mailbox")
    /\ action.dest_mailbox = <<"O">>

\* The number of '(' of a pattern that no backslash escapes.
RECURSIVE OpenParens(_, _)
OpenParens(p, i) ==
    IF i > Len(p) THEN 0
    ELSE (IF p[i] = "(" /\ (i = 1 \/ p[i - 1] # "\\") THEN 1 ELSE 0) + OpenParens(p, i + 1)
RECURSIVE CloseParens(_, _)
CloseParens(p, i) ==
    IF i > Len(p) THEN 0
    ELSE (IF p[i] = ")" /\ (i = 1 \/ p[i - 1] # "\\") THEN 1 ELSE 0) + CloseParens(p, i + 1)
CapturingGroups(p) == OpenParens(p, 1)
Balanced(p) == OpenParens(p, 1) = CloseParens(p, 1)

PatternOf(action_data) ==
    Get(action_data, "dest-mailbox-regex", SortMailingList_default_regex)
Constructed(action_data) ==
    /\ raised = NoError
    /\ action.cls = "SortMailingList"
    /\ action.dest_mailbox_base = action_data["dest-mailbox-base"]
    /\ action.dest_mailbox_regex.pattern = PatternOf(action_data)
    /\ action.dest_mailbox_regex_group =
           Get(action_data, "dest-mailbox-regex-group", 0)
Fails(msg) == action = NoAction /\ raised.type = "ValueError" /\ raised.msg = msg

\* C4 as stated: SortMailingList construction succeeds exactly when (1)
\* dest-mailbox-base is present, (2) the pattern has a capturing group and
\* (3) it has exactly one group or dest-mailbox-regex-group is supplied; the
\* first failing check determines the error.
C4_AsStated ==
    (AfterFactory /\ NameOf(args.action_data) = NameSortMailingList) =>
        LET ad == args.action_data
            groups == CapturingGroups(PatternOf(ad))
        IN  IF "dest-mailbox-base" \notin DOMAIN ad THEN Fails(NoBaseGiven)
            ELSE IF groups = 0 THEN Fails(NoGroup)
            ELSE IF groups > 1 /\ "dest-mailbox-regex-group" \notin DOMAIN ad
            THEN Fails(MultipleGroups)
            ELSE Constructed(ad)

\* C4, amended: the checks are, in order, (1) dest-mailbox-base is present
\* and not empty, else the missing-base error; (1b) the pattern compiles,
\* else re.compile's own error; (2) the pattern has a capturing group, else
\* the no-capture-group error; (3) it has exactly one group or
\* dest-mailbox-regex-group is supplied, else the ambiguous-group error.
\* Construction succeeds exactly when all pass, the first failing check
\* determines the error, and the group index is 0 when none is supplied.
C4_ValidationOrder ==
    (AfterFactory /\ NameOf(args.action_data) = NameSortMailingList) =>
        LET ad == args.action_data
            groups == CapturingGroups(PatternOf(ad))
        IN  IF Get(ad, "dest-mailbox-base", <<>>) = <<>> THEN Fails(NoBaseGiven)
            ELSE IF ~Balanced(PatternOf(ad))
            THEN action = NoAction /\ raised.type = "re.error"
            ELSE IF groups = 0 THEN Fails(NoGroup)
            ELSE IF groups > 1 /\ "dest-mailbox-regex-group" \notin DOMAIN ad
            THEN Fails(MultipleGroups)
            ELSE Constructed(ad)

C4_Witness ==
    /\ AfterFactory
    /\ action # NoAction
    /\ action.cls = "SortMailingList"
    /\ CapturingGroups(action.dest_mailbox_regex.pattern) = 2
    /\ action.dest_mailbox_regex_group = 1

C4_WitnessAmbiguous ==
    /\ AfterFactory
    /\ raised # NoError
    /\ raised.msg = MultipleGroups

IsSort == action.cls = "SortMailingList"
ListIdOf(message) == Get(message, "list-id", <<>>)

\* C5: for a constructed SortMailingList and a message whose list-id the
\* pattern matches somewhere, invoke does not fail: it calls move_message
\* exactly once, with destination base + '.' + the text of the group at the
\* configured 0-based index; a group index the pattern cannot satisfy is
\* rejected at construction, never during invoke.
C5_AsStated ==
    (AfterInvoke /\ IsSort
       /\ ReSearch(action.dest_mailbox_regex, ListIdOf(args.message)).matched) =>
        LET match == ReSearch(action.dest_mailbox_regex, ListIdOf(args.message))
            index == action.dest_mailbox_regex_group
        IN  /\ raised \in {NoError, ConnectionError}
            /\ match.groups[index + 1] # None
            /\ Calls(trace) =
                  << MoveMessageCall(args.mailbox,
                                     action.dest_mailbox_base \o <<".">>
                                         \o match.groups[index + 1],
                                     args.message_id, args.message) >>

\* s without its leading '.' characters
RECURSIVE SkipDots(_)
SkipDots(s) == IF s # <<>> /\ Head(s) = "." THEN SkipDots(Tail(s)) ELSE s
\* s up to, not including, its first '.'; all of s when it has none
RECURSIVE UpToDot(_)
UpToDot(s) == IF s = <<>> \/ Head(s) = "." THEN <<>> ELSE <<Head(s)>> \o UpToDot(Tail(s))
HasChar(s, c) == \E i \in 1..Len(s) : s[i] = c

\* C6 as stated: with the default pattern the text captured is the list-id up
\* to its first '.', after skipping an optional leading '<', and it contains
\* neither '.' nor '<'.
StatedCapture(list_id) ==
    UpToDot(IF list_id # <<>> /\ Head(list_id) = "<" THEN Tail(list_id) ELSE list_id)
DefaultCapture(list_id) ==
    LET s == SkipDots(list_id) IN
    IF Len(s) >= 2 /\ s[1] = "<" /\ s[2] # "."
    THEN UpToDot(Tail(s)) ELSE UpToDot(s)
\* A destination is resolved exactly when a '.' follows a character that is
\* not a '.'.
DefaultResolves(list_id) == HasChar(SkipDots(list_id), ".")

C6_WitnessAngle ==
    /\ AfterInvoke
    /\ IsSort
    /\ action.dest_mailbox_regex.pattern = SortMailingList_default_regex
    /\ Calls(trace) # <<>>
    /\ Calls(trace)[1].dest = <<"L", ".", "a", "<">>

ResolutionError(list_id, pattern) ==
    ValueError(CouldNotDetermine, <<list_id, pattern>>)

\* C7 as stated: invoking any constructed SortMailingList on a message with
\* no list-id header fails with the per-message resolution error and calls
\* move_message not at all.
C7_AsStated ==
    (AfterInvoke /\ IsSort /\ "list-id" \notin DOMAIN args.message) =>
        /\ raised = ResolutionError(<<>>, action.dest_mailbox_regex.pattern)
        /\ Calls(trace) = <<>>

\* C7, amended: invoking a constructed SortMailingList whose pattern does not
\* match the empty string (the default pattern is one) on a message with no
\* list-id header fails with the per-message resolution error, which names
\* the empty string as the list-id, and calls move_message not at all.
C7_NoListId ==
    (AfterInvoke /\ IsSort /\ "list-id" \notin DOMAIN args.message
       /\ ~ReSearch(action.dest_mailbox_regex, <<>>).matched) =>
        /\ raised = ResolutionError(<<>>, action.dest_mailbox_regex.pattern)
        /\ Calls(trace) = <<>>

C7_Witness ==
    /\ AfterInvoke
    /\ IsSort
    /\ action.dest_mailbox_regex.pattern = SortMailingList_default_regex
    /\ "list-id" \notin DOMAIN args.message
    /\ raised # NoError
    /\ raised.msg = CouldNotDetermine

\* The kinds of error construction raises, over every configuration.
ConfigurationErrorTypes ==
    {factory(ad, cfg).exc.type : ad \in ActionConfigs, cfg \in GlobalConfigs}
        \ {NoError.type}

\* C8: the error SortMailingList.invoke raises when no destination can be
\* derived is of a kind distinct from every configuration error construction
\* raises, so a handler for the one never catches the other.
C8_AsStated ==
    (AfterInvoke /\ raised # NoError /\ raised.msg = CouldNotDetermine) =>
        raised.type \notin ConfigurationErrorTypes

\* C9: in every invocation the info log record (message id, subject, and the
\* destination for the moving actions) precedes the connection call: no
\* move_message or delete_message without an earlier record in the same
\* invocation, also when the call fails, and the destination logged is the
\* one passed to move_message.
C9_LogBeforeCall ==
    AfterInvoke =>
        \A j \in 1..Len(trace) :
            IsConnCall(trace[j]) =>
                \E i \in 1..(j - 1) :
                    /\ IsInfo(trace[i])
                    /\ trace[i].logger = action.cls
                    /\ trace[i].fields =
                          IF trace[j].ev = "move_message"
                          THEN <<args.message_id, Header(args.message, "subject"),
                                 trace[j].dest>>
                          ELSE <<args.message_id, Header(args.message, "subject")>>

C9_Witness ==
    /\ AfterInvoke
    /\ IsSort
    /\ raised = ConnectionError
    /\ Len(trace) = 4
    /\ IsInfo(trace[3])
    /\ trace[4].ev = "move_message"

C9_WitnessDelete ==
    /\ AfterInvoke
    /\ action.cls = "Delete"
    /\ raised = ConnectionError
    /\ IsInfo(trace[1])

\* C10: a constructed action's destination-selection parameters are the ones
\* construction from its configs resolves, and no step changes them, an
\* invocation that fails in destination resolution or in the connection call
\* included.
C10_ParametersFixed ==
    /\ [](action # NoAction => action = factory(action.data, action.cfg).self)
    /\ [][action # NoAction => action' = action]_vars

C10_Witness ==
    /\ AfterInvoke
    /\ IsSort
    /\ raised # NoError
    /\ raised.msg = CouldNotDetermine
    /\ action.dest_mailbox_regex_group = 0
====
